---------------------------- MODULE Spec2Model ----------------------------
(***************************************************************************)
(* A model of utils/trainAndTest.js (limdu): the label normalizer, the     *)
(* evaluators `test` and `testLite`, the comparator `compare` and the      *)
(* orchestrator `trainAndTest`.                                            *)
(*                                                                         *)
(* JavaScript values are represented as follows.                           *)
(*  - a string is the sequence of its UTF-16 code units, so that the       *)
(*    default Array.prototype.sort order (code-unit lexicographic) is      *)
(*    computed and not assumed;                                            *)
(*  - a label is a record [t |-> "s", v |-> codes] (a string) or           *)
(*    [t |-> "n", v |-> <<n>>] (the number n): a number and the string of  *)
(*    its digits are different values, as they are for _.isEqual;          *)
(*  - an array is a sequence; a value that may or may not be an array is   *)
(*    wrapped by Arr / Scalar;                                             *)
(*  - a console line is a record with a "kind" field.                      *)
(*                                                                         *)
(* PrecisionRecall and hash.add are required by the file but defined       *)
(* elsewhere; they are modelled from the interface the specification       *)
(* gives (section 6), see PrecisionRecall, addCases, calculateStats,       *)
(* fullStats, shortStats and hashAdd below.                                *)
(***************************************************************************)
EXTENDS Integers, Sequences, FiniteSets, Bags, TLC

VARIABLES
    op,             \* the entry point called last ("none" before any call)
    args,           \* the arguments of that call
    ret,            \* what the call returned (for testLite: its local currentStats)
    thrown,         \* whether the call ended by an exception propagating to the caller
    out,            \* the console lines the call printed, in order
    trace,          \* the calls made on the factory and the classifier, in order
    classifier,     \* the caller's classifier (or factory product kind)
    verbosity,      \* the caller's verbosity level
    microAverage,   \* the caller's microAverage accumulator, or Null
    macroSum,       \* the caller's macroSum hash, or Null
    macroSum0,      \* history: macroSum as it was before the first call
    history,        \* history: the currentStats of each call on the accumulators, in order
    ncalls          \* number of calls made on the shared accumulators

vars == <<op, args, ret, thrown, out, trace, classifier, verbosity,
          microAverage, macroSum, macroSum0, history, ncalls>>

-----------------------------------------------------------------------------
(* Bounds *)

\* longest dataset (test set) passed to an entry point
MaxLen == 2
\* longest label collection passed to normalizeClasses on its own
MaxLabels == 3
\* number of evaluation calls that share the caller's accumulators
MaxCalls == 2
\* number of train-and-test runs that share the caller's accumulators
MaxRuns == 1

-----------------------------------------------------------------------------
(* Strings and labels *)

Str(codes) == [t |-> "s", v |-> codes]
Num(n) == [t |-> "n", v |-> <<n>>]

isString(x) == x.t = "s"

\* the decimal digits of a natural number, as code units ('0' is 48)
RECURSIVE Digits(_)
Digits(n) == IF n < 10 THEN <<48 + n>> ELSE Digits(n \div 10) \o <<48 + (n % 10)>>

\* JSON.stringify of a label: a number gives its digits, a string is quoted ('"' is 34)
JSONstringify(x) == IF x.t = "n" THEN Digits(x.v[1]) ELSE <<34>> \o x.v \o <<34>>

\* String(x), the key Array.prototype.sort compares by default
StringOf(x) == IF x.t = "n" THEN Digits(x.v[1]) ELSE x.v

\* a < b for strings: lexicographic on code units
RECURSIVE StrLess(_, _)
StrLess(a, b) ==
    IF b = <<>> THEN FALSE
    ELSE IF a = <<>> THEN TRUE
    ELSE IF a[1] # b[1] THEN a[1] < b[1]
    ELSE StrLess(Tail(a), Tail(b))

\* insertion of x into the sorted array s, after the elements that are not greater
RECURSIVE InsertSorted(_, _)
InsertSorted(x, s) ==
    IF s = <<>> THEN <<x>>
    ELSE IF StrLess(StringOf(x), StringOf(s[1])) THEN <<x>> \o s
    ELSE <<s[1]>> \o InsertSorted(x, Tail(s))

\* array.sort() with no comparator: ascending by String(element), stable
RECURSIVE sort(_)
sort(s) == IF s = <<>> THEN <<>> ELSE InsertSorted(s[Len(s)], sort(SubSeq(s, 1, Len(s) - 1)))

\* a value that is an array, and one that is not
Arr(s) == [isArray |-> TRUE, elems |-> s]
Scalar(x) == [isArray |-> FALSE, val |-> x]

stringifyClassQuoting(aClass) == Str(JSONstringify(aClass))

stringifyClass(aClass) == IF isString(aClass) THEN aClass ELSE Str(JSONstringify(aClass))

normalizeClasses(expectedClasses) ==
    LET wrapped == IF ~expectedClasses.isArray THEN <<expectedClasses.val>>
                   ELSE expectedClasses.elems
        mapped == [i \in 1..Len(wrapped) |-> stringifyClass(wrapped[i])]
    IN  sort(mapped)

\* _(a).isEqual(b) on two arrays of labels: same length, equal elements, in order
isEqual(a, b) == a = b

-----------------------------------------------------------------------------
(* The statistics engine (PrecisionRecall) and hash.add, from their interface *)

\* new PrecisionRecall(): nothing recorded, nothing calculated
PrecisionRecall ==
    [cases |-> <<>>, count |-> 0, TP |-> 0, FP |-> 0, FN |-> 0, allTrue |-> 0,
     calculated |-> FALSE, Accuracy |-> <<0, 0>>]

\* the set of canonical string forms of the labels of an array
LabelSet(classes) == {StringOf(classes[i]) : i \in 1..Len(classes)}

\* stats.addCases(expected, actual, ...): the stats after the call; `cases` logs
\* the pairs received, in order
addCases(stats, expectedClasses, actualClasses) ==
    LET E == LabelSet(expectedClasses)
        A == LabelSet(actualClasses)
    IN  [stats EXCEPT
            !.cases = Append(@, <<expectedClasses, actualClasses>>),
            !.count = @ + 1,
            !.TP = @ + Cardinality(A \cap E),
            !.FP = @ + Cardinality(A \ E),
            !.FN = @ + Cardinality(E \ A),
            !.allTrue = @ + (IF A = E THEN 1 ELSE 0)]

\* what stats.addCases(expected, actual, wantExplanations) returns: the per-case
\* explanations when requested, empty otherwise
explanationsOf(expectedClasses, actualClasses, wantExplanations) ==
    LET E == LabelSet(expectedClasses)
        A == LabelSet(actualClasses)
    IN  IF wantExplanations
        THEN <<[truePositives |-> A \cap E, falsePositives |-> A \ E,
                falseNegatives |-> E \ A]>>
        ELSE <<>>

\* stats.calculateStats(): the derived statistics are computed from the counts
\* (Accuracy, the ratio allTrue/count, is kept as the pair of its terms)
calculateStats(stats) ==
    [stats EXCEPT !.calculated = TRUE, !.Accuracy = <<stats.allTrue, stats.count>>]

\* stats.shortStats(): the one-line summary
shortStats(stats) == [calculated |-> stats.calculated, Accuracy |-> stats.Accuracy]

\* stats.fullStats(): the structured summary. A ratio is summed with others by
\* hash.add, so it is given as a formal sum of ratios (a bag): one term once
\* calculated, none before
fullStats(stats) ==
    [count |-> stats.count, TP |-> stats.TP, FP |-> stats.FP, FN |-> stats.FN,
     allTrue |-> stats.allTrue,
     Accuracy |-> IF stats.calculated THEN SetToBag({stats.Accuracy}) ELSE EmptyBag]

\* the hash {} : every feature absent, that is, zero
EmptyHash ==
    [count |-> 0, TP |-> 0, FP |-> 0, FN |-> 0, allTrue |-> 0, Accuracy |-> EmptyBag]

\* hash.add(target, source): target after source was added to it, feature by feature
hashAdd(target, source) ==
    [count |-> target.count + source.count, TP |-> target.TP + source.TP,
     FP |-> target.FP + source.FP, FN |-> target.FN + source.FN,
     allTrue |-> target.allTrue + source.allTrue,
     Accuracy |-> target.Accuracy (+) source.Accuracy]

\* an optional argument that was not supplied (undefined)
Null == [isNull |-> TRUE]
supplied(x) == "isNull" \notin DOMAIN x

-----------------------------------------------------------------------------
(* Classifiers (external collaborators) *)

LabelA == Str(<<65>>)
LabelB == Str(<<66>>)

\* what a classifier answers to an input: a class array, or an exception
Answer(classes) == [throws |-> FALSE, classes |-> classes]
Throws == [throws |-> TRUE, classes |-> <<>>]

\* Three classifiers whose answer depends only on the input. `explains` tells
\* whether a truthy `explain` makes classify return {classes, explanation}
\* rather than the bare class array.
Classifier1 ==
    [name |-> "c1", explains |-> TRUE,
     answer |-> [x |-> Answer(<<LabelA>>), y |-> Answer(<<LabelB, LabelA>>),
                 z |-> Answer(<<Num(10), Num(2)>>)]]
Classifier2 ==
    [name |-> "c2", explains |-> TRUE,
     answer |-> [x |-> Answer(<<LabelB>>), y |-> Answer(<<LabelB>>),
                 z |-> Answer(<<Str(<<50>>)>>)]]
Classifier3 ==
    [name |-> "c3", explains |-> FALSE,
     answer |-> [x |-> Answer(<<LabelB, LabelA>>), y |-> Throws, z |-> Answer(<<Str(<<50>>)>>)]]

Classifiers == {Classifier1, Classifier2, Classifier3}

\* classifier.classify(input, explain): an exception, or the value returned:
\* an object with a `classes` property, or the class array itself
classify(c, input, explain) ==
    LET a == c.answer[input]
    IN  IF a.throws THEN [throws |-> TRUE]
        ELSE IF explain # 0 /\ c.explains
             THEN [throws |-> FALSE, isArray |-> FALSE, classes |-> a.classes]
             ELSE [throws |-> FALSE, isArray |-> TRUE, elems |-> a.classes]

\* the entry of `trace` for a call of classify
classifyCall(c, input) == [call |-> "classify", on |-> c.name, input |-> input]

\* the samples datasets are made of
SampleX == [input |-> "x", output |-> Scalar(LabelA)]
SampleY == [input |-> "y", output |-> Arr(<<LabelB, LabelA>>)]
SampleZ == [input |-> "z", output |-> Arr(<<Num(10), Num(2)>>)]

SeqsUpTo(S, n) == UNION {[1..k -> S] : k \in 0..n}

-----------------------------------------------------------------------------
(* module.exports.test *)

\* testCase with the arguments of microAverage.addCases exchanged
testCaseSwapsMicro(st, c, sample, v) ==
    LET expectedClasses == normalizeClasses(sample.output)
        result == classify(c, sample.input, 0)
        called == Append(st.trace, classifyCall(c, sample.input))
    IN  IF result.throws THEN [st EXCEPT !.trace = called, !.thrown = TRUE]
        ELSE
        LET actualClasses == result.elems
            explanations == explanationsOf(expectedClasses, actualClasses, v > 2)
        IN  [st EXCEPT
                !.trace = called,
                !.currentStats = addCases(@, expectedClasses, actualClasses),
                !.out = IF v > 1 /\ Len(explanations) > 0
                        THEN Append(@, [kind |-> "explanations", input |-> sample.input,
                                        explanations |-> explanations])
                        ELSE @,
                !.microAverage = IF supplied(@)
                                 THEN addCases(@, actualClasses, expectedClasses)
                                 ELSE @]

\* one iteration of the loop of `test` on a sample; st holds the locals and the
\* objects the call works on
testCase(st, c, sample, v) ==
    LET expectedClasses == normalizeClasses(sample.output)
        result == classify(c, sample.input, 0)
        called == Append(st.trace, classifyCall(c, sample.input))
    IN  IF result.throws THEN [st EXCEPT !.trace = called, !.thrown = TRUE]
        ELSE
        LET actualClasses == result.elems
            explanations == explanationsOf(expectedClasses, actualClasses, v > 2)
        IN  [st EXCEPT
                !.trace = called,
                !.currentStats = addCases(@, expectedClasses, actualClasses),
                !.out = IF v > 1 /\ Len(explanations) > 0
                        THEN Append(@, [kind |-> "explanations", input |-> sample.input,
                                        explanations |-> explanations])
                        ELSE @,
                !.microAverage = IF supplied(@)
                                 THEN addCases(@, expectedClasses, actualClasses)
                                 ELSE @]

\* testLoop with the bound i < testSet.length-1: the last sample is left out
RECURSIVE testLoopStopsEarly(_, _, _, _, _)
testLoopStopsEarly(st, c, testSet, v, i) ==
    IF i >= Len(testSet) \/ st.thrown THEN st
    ELSE testLoopStopsEarly(testCase(st, c, testSet[i], v), c, testSet, v, i + 1)

\* the loop of `test` from index i on; an exception ends it
RECURSIVE testLoop(_, _, _, _, _)
testLoop(st, c, testSet, v, i) ==
    IF i > Len(testSet) \/ st.thrown THEN st
    ELSE testLoop(testCase(st, c, testSet[i], v), c, testSet, v, i + 1)

\* testFinish with hash.add called before calculateStats
testFinishMergesFirst(st, v) ==
    LET calculated == calculateStats(st.currentStats)
    IN  [st EXCEPT
            !.currentStats = calculated,
            !.macroSum = IF supplied(@) THEN hashAdd(@, fullStats(st.currentStats)) ELSE @,
            !.out = @ \o (IF v > 0
                          THEN (IF v > 2
                                THEN <<[kind |-> "FULL RESULTS:"],
                                       [kind |-> "dir", stats |-> fullStats(calculated)]>>
                                ELSE <<>>)
                               \o <<[kind |-> "SUMMARY", stats |-> shortStats(calculated)]>>
                          ELSE <<>>)]

\* testFinish with the summary printed only when verbosity > 1
testFinishQuietAtOne(st, v) ==
    LET calculated == calculateStats(st.currentStats)
    IN  [st EXCEPT
            !.currentStats = calculated,
            !.macroSum = IF supplied(@) THEN hashAdd(@, fullStats(calculated)) ELSE @,
            !.out = @ \o (IF v > 1
                          THEN (IF v > 2
                                THEN <<[kind |-> "FULL RESULTS:"],
                                       [kind |-> "dir", stats |-> fullStats(calculated)]>>
                                ELSE <<>>)
                               \o <<[kind |-> "SUMMARY", stats |-> shortStats(calculated)]>>
                          ELSE <<>>)]

\* what follows the loop of `test`
testFinish(st, v) ==
    LET calculated == calculateStats(st.currentStats)
    IN  [st EXCEPT
            !.currentStats = calculated,
            !.macroSum = IF supplied(@) THEN hashAdd(@, fullStats(calculated)) ELSE @,
            !.out = @ \o (IF v > 0
                          THEN (IF v > 2
                                THEN <<[kind |-> "FULL RESULTS:"],
                                       [kind |-> "dir", stats |-> fullStats(calculated)]>>
                                ELSE <<>>)
                               \o <<[kind |-> "SUMMARY", stats |-> shortStats(calculated)]>>
                          ELSE <<>>)]

\* test with the statistics calculated, merged and printed in a `finally`, that
\* is, also when classify threw
testFinishesAnyway(c, testSet, v, micro, macro) ==
    LET st0 == [currentStats |-> PrecisionRecall, microAverage |-> micro,
                macroSum |-> macro, out |-> <<>>, trace |-> <<>>, thrown |-> FALSE]
        st1 == testLoop(st0, c, testSet, v, 1)
    IN  testFinish(st1, v)

\* test(classifier, testSet, verbosity, microAverage, macroSum): the locals and
\* objects at the end of the call; currentStats is returned unless thrown
test(c, testSet, v, micro, macro) ==
    LET st0 == [currentStats |-> PrecisionRecall, microAverage |-> micro,
                macroSum |-> macro, out |-> <<>>, trace |-> <<>>, thrown |-> FALSE]
        st1 == testLoop(st0, c, testSet, v, 1)
    IN  IF st1.thrown THEN st1 ELSE testFinish(st1, v)

-----------------------------------------------------------------------------
(* module.exports.testLite *)

\* one iteration of the loop of `testLite`, recording only the mismatches
testLiteCaseRecordsMismatches(st, c, sample, explain) ==
    LET expectedClasses == normalizeClasses(sample.output)
        actualClassesWithExplanations == classify(c, sample.input, explain)
        called == Append(st.trace, classifyCall(c, sample.input))
    IN  IF actualClassesWithExplanations.throws
        THEN [st EXCEPT !.trace = called, !.thrown = TRUE]
        ELSE
        LET unwrapped == IF ~actualClassesWithExplanations.isArray
                         THEN actualClassesWithExplanations.classes
                         ELSE actualClassesWithExplanations.elems
            actualClasses == sort(unwrapped)
        IN  IF ~isEqual(expectedClasses, actualClasses)
            THEN [st EXCEPT
                    !.trace = called,
                    !.out = Append(@, [kind |-> "mismatch", input |-> sample.input,
                                       expected |-> expectedClasses,
                                       actual |-> actualClasses,
                                       explained |-> explain # 0]),
                    !.currentStats = addCases(@, expectedClasses, actualClasses)]
            ELSE [st EXCEPT !.trace = called]

\* one iteration of the loop of `testLite`
testLiteCase(st, c, sample, explain) ==
    LET expectedClasses == normalizeClasses(sample.output)
        actualClassesWithExplanations == classify(c, sample.input, explain)
        called == Append(st.trace, classifyCall(c, sample.input))
    IN  IF actualClassesWithExplanations.throws
        THEN [st EXCEPT !.trace = called, !.thrown = TRUE]
        ELSE
        LET unwrapped == IF ~actualClassesWithExplanations.isArray
                         THEN actualClassesWithExplanations.classes
                         ELSE actualClassesWithExplanations.elems
            actualClasses == sort(unwrapped)
        IN  [st EXCEPT
                !.trace = called,
                !.out = IF ~isEqual(expectedClasses, actualClasses)
                        THEN Append(@, [kind |-> "mismatch", input |-> sample.input,
                                        expected |-> expectedClasses,
                                        actual |-> actualClasses,
                                        explained |-> explain # 0])
                        ELSE @,
                !.currentStats = addCases(@, expectedClasses, actualClasses)]

RECURSIVE testLiteLoop(_, _, _, _, _)
testLiteLoop(st, c, dataset, explain, i) ==
    IF i > Len(dataset) \/ st.thrown THEN st
    ELSE testLiteLoop(testLiteCase(st, c, dataset[i], explain), c, dataset, explain, i + 1)

\* testLite(classifier, dataset, explain): the locals and the output at the end
\* of the call
testLite(c, dataset, explain) ==
    LET st0 == [currentStats |-> PrecisionRecall, out |-> <<>>, trace |-> <<>>,
                thrown |-> FALSE]
        st1 == testLiteLoop(st0, c, dataset, explain, 1)
        calculated == calculateStats(st1.currentStats)
    IN  IF st1.thrown THEN st1
        ELSE [st1 EXCEPT
                !.currentStats = calculated,
                !.out = Append(@, [kind |-> "SUMMARY", stats |-> shortStats(calculated)])]

-----------------------------------------------------------------------------
(* module.exports.compare *)

\* (explain? result.classes: result) followed by .sort(): the sorted array, or a
\* TypeError when the expression is not an array (undefined, or the object)
sortedClasses(result, explain) ==
    IF explain # 0
    THEN IF ~result.isArray
         THEN [typeError |-> FALSE, elems |-> sort(result.classes)]
         ELSE [typeError |-> TRUE, elems |-> <<>>]
    ELSE IF result.isArray
         THEN [typeError |-> FALSE, elems |-> sort(result.elems)]
         ELSE [typeError |-> TRUE, elems |-> <<>>]

\* the lines printed for a sample on which the two sorted outputs differ, with
\* `if` in place of the `else if`
divergenceLinesTwoIfs(sample, expectedClasses, actualClasses1, actualClasses2, explain) ==
    <<[kind |-> "classes", input |-> sample.input, classes1 |-> actualClasses1,
       classes2 |-> actualClasses2, explained |-> explain # 0]>>
    \o (IF isEqual(actualClasses1, expectedClasses)
        THEN <<[kind |-> "Classifier1 is correct"]>> ELSE <<>>)
    \o (IF isEqual(actualClasses2, expectedClasses)
        THEN <<[kind |-> "Classifier2 is correct"]>>
        ELSE <<[kind |-> "both are incorrect"]>>)

\* the lines printed for a sample on which the two sorted outputs differ
divergenceLines(sample, expectedClasses, actualClasses1, actualClasses2, explain) ==
    <<[kind |-> "classes", input |-> sample.input, classes1 |-> actualClasses1,
       classes2 |-> actualClasses2, explained |-> explain # 0],
      IF isEqual(actualClasses1, expectedClasses)
      THEN [kind |-> "Classifier1 is correct"]
      ELSE IF isEqual(actualClasses2, expectedClasses)
           THEN [kind |-> "Classifier2 is correct"]
           ELSE [kind |-> "both are incorrect"]>>

\* one iteration of the loop of `compare`
compareCase(st, c1, c2, sample, explain) ==
    LET expectedClasses == normalizeClasses(sample.output)
        result1 == classify(c1, sample.input, explain)
        called1 == Append(st.trace, classifyCall(c1, sample.input))
    IN  IF result1.throws THEN [st EXCEPT !.trace = called1, !.thrown = TRUE]
        ELSE
        LET result2 == classify(c2, sample.input, explain)
            called2 == Append(called1, classifyCall(c2, sample.input))
        IN  IF result2.throws THEN [st EXCEPT !.trace = called2, !.thrown = TRUE]
            ELSE
            LET actualClasses1 == sortedClasses(result1, explain)
                actualClasses2 == sortedClasses(result2, explain)
            IN  IF actualClasses1.typeError \/ actualClasses2.typeError
                THEN [st EXCEPT !.trace = called2, !.thrown = TRUE]
                ELSE [st EXCEPT
                        !.trace = called2,
                        !.out = IF ~isEqual(actualClasses1.elems, actualClasses2.elems)
                                THEN @ \o divergenceLines(sample, expectedClasses,
                                                          actualClasses1.elems,
                                                          actualClasses2.elems, explain)
                                ELSE @]

RECURSIVE compareLoop(_, _, _, _, _, _)
compareLoop(st, c1, c2, dataset, explain, i) ==
    IF i > Len(dataset) \/ st.thrown THEN st
    ELSE compareLoop(compareCase(st, c1, c2, dataset[i], explain), c1, c2, dataset,
                     explain, i + 1)

\* compare(classifier1, classifier2, dataset, explain): the output and the calls
\* made at the end of the call; nothing is returned
compare(c1, c2, dataset, explain) ==
    compareLoop([out |-> <<>>, trace |-> <<>>, thrown |-> FALSE], c1, c2, dataset,
                explain, 1)

-----------------------------------------------------------------------------
(* module.exports.trainAndTest *)

\* the lines and calls of trainAndTest up to the call of `test`; the elapsed
\* time the last line ends with is left out of the line
training(c, trainSet, v) ==
    LET classes == IF supplied(trainSet.allClasses)
                   THEN <<Len(trainSet.allClasses.elems)>> ELSE <<>>
    IN  [trace |-> <<[call |-> "createNewClassifierFunction", on |-> c.name],
                     [call |-> "trainBatch", on |-> c.name, trainSet |-> trainSet]>>,
         out |-> (IF v > 0
                  THEN <<[kind |-> "start training", samples |-> Len(trainSet.samples),
                          classes |-> classes]>>
                  ELSE <<>>)
                 \o (IF v > 2 THEN <<[kind |-> "dir", trainSet |-> trainSet]>> ELSE <<>>)
                 \o (IF v > 0
                     THEN <<[kind |-> "end training", samples |-> Len(trainSet.samples),
                             classes |-> classes]>>
                     ELSE <<>>)]

\* trainAndTest with the train set passed on to `test`
trainAndTestOnTrainSet(c, trainSet, testSet, v, micro, macro) ==
    LET t == training(c, trainSet, v)
        r == test(c, trainSet.samples, v, micro, macro)
    IN  [r EXCEPT !.out = t.out \o @, !.trace = t.trace \o @]

\* trainAndTest(createNewClassifierFunction, trainSet, testSet, verbosity,
\* microAverage, macroSum), c being the classifier the function creates
trainAndTest(c, trainSet, testSet, v, micro, macro) ==
    LET t == training(c, trainSet, v)
        r == test(c, testSet, v, micro, macro)
    IN  [r EXCEPT !.out = t.out \o @, !.trace = t.trace \o @]

-----------------------------------------------------------------------------
(* The caller of `test` *)

Verbosities == 0..3

\* a macroSum that already holds the summary of an earlier run
PriorHash ==
    hashAdd(EmptyHash,
            fullStats(calculateStats(addCases(PrecisionRecall, <<LabelA>>, <<LabelA>>))))

TestSamples == {SampleX, SampleY}

Init ==
    /\ op = "none"
    /\ args = [none |-> TRUE]
    /\ ret = PrecisionRecall
    /\ thrown = FALSE
    /\ out = <<>>
    /\ trace = <<>>
    /\ classifier \in Classifiers
    /\ verbosity \in Verbosities
    /\ microAverage \in {Null, PrecisionRecall}
    /\ macroSum \in {Null, EmptyHash, PriorHash}
    /\ macroSum0 = macroSum
    /\ history = <<>>
    /\ ncalls = 0

Test ==
    /\ ncalls < MaxCalls
    /\ \E testSet \in SeqsUpTo(TestSamples, MaxLen) :
         LET r == test(classifier, testSet, verbosity, microAverage, macroSum)
         IN  /\ op' = "test"
             /\ args' = [testSet |-> testSet, microAverage |-> microAverage,
                         macroSum |-> macroSum]
             /\ ret' = r.currentStats
             /\ thrown' = r.thrown
             /\ out' = r.out
             /\ trace' = r.trace
             /\ microAverage' = r.microAverage
             /\ macroSum' = r.macroSum
             /\ history' = Append(history, [currentStats |-> r.currentStats,
                                            thrown |-> r.thrown])
             /\ ncalls' = ncalls + 1
    /\ UNCHANGED <<classifier, verbosity, macroSum0>>

Next == Test

Spec == Init /\ [][Next]_vars

-----------------------------------------------------------------------------
(* The callers of normalizeClasses, testLite, compare and trainAndTest *)

\* a caller with no accumulators
InitIdle ==
    /\ op = "none"
    /\ args = [none |-> TRUE]
    /\ ret = PrecisionRecall
    /\ thrown = FALSE
    /\ out = <<>>
    /\ trace = <<>>
    /\ classifier = Classifier1
    /\ verbosity = 0
    /\ microAverage = Null
    /\ macroSum = Null
    /\ macroSum0 = Null
    /\ history = <<>>
    /\ ncalls = 0

Labels == {LabelA, LabelB, Num(2), Num(10), Str(<<50>>)}

\* the values normalizeClasses is applied to: a label, or an array of labels
LabelValues == {Scalar(x) : x \in Labels} \cup {Arr(q) : q \in SeqsUpTo(Labels, MaxLabels)}

Normalize ==
    /\ \E x \in LabelValues :
         /\ op' = "normalizeClasses"
         /\ args' = [expectedClasses |-> x]
         /\ ret' = normalizeClasses(x)
    /\ UNCHANGED <<thrown, out, trace, classifier, verbosity, microAverage, macroSum,
                   macroSum0, history, ncalls>>

\* normalizeClasses applied to what it returned
Renormalize ==
    /\ op = "normalizeClasses"
    /\ op' = "normalizeClasses"
    /\ args' = [expectedClasses |-> Arr(ret)]
    /\ ret' = normalizeClasses(Arr(ret))
    /\ UNCHANGED <<thrown, out, trace, classifier, verbosity, microAverage, macroSum,
                   macroSum0, history, ncalls>>

NextNorm == Normalize \/ Renormalize

SpecNorm == InitIdle /\ [][NextNorm]_vars

Samples == {SampleX, SampleY, SampleZ}

Explains == {0, 1}

Undefined == [undefined |-> TRUE]

TestLite ==
    /\ \E c \in Classifiers, dataset \in SeqsUpTo(Samples, MaxLen), explain \in Explains :
         LET r == testLite(c, dataset, explain)
         IN  /\ op' = "testLite"
             /\ args' = [classifier |-> c, dataset |-> dataset, explain |-> explain]
             /\ ret' = r.currentStats
             /\ thrown' = r.thrown
             /\ out' = r.out
             /\ trace' = r.trace
    /\ UNCHANGED <<classifier, verbosity, microAverage, macroSum, macroSum0, history,
                   ncalls>>

Compare ==
    /\ \E c1 \in Classifiers, c2 \in Classifiers, dataset \in SeqsUpTo(Samples, MaxLen),
          explain \in Explains :
         LET r == compare(c1, c2, dataset, explain)
         IN  /\ op' = "compare"
             /\ args' = [classifier1 |-> c1, classifier2 |-> c2, dataset |-> dataset,
                         explain |-> explain]
             /\ ret' = Undefined
             /\ thrown' = r.thrown
             /\ out' = r.out
             /\ trace' = r.trace
    /\ UNCHANGED <<classifier, verbosity, microAverage, macroSum, macroSum0, history,
                   ncalls>>

NextCompare == TestLite \/ Compare

SpecCompare == InitIdle /\ [][NextCompare]_vars

\* the train sets: an empty one, and one of three samples that names its classes
TrainSets ==
    {[samples |-> <<>>, allClasses |-> Null],
     [samples |-> <<SampleX, SampleY, SampleZ>>,
      allClasses |-> Arr(<<LabelA, LabelB, Num(2), Num(10)>>)]}

TrainAndTest ==
    /\ ncalls < MaxRuns
    /\ \E trainSet \in TrainSets, testSet \in SeqsUpTo(TestSamples, MaxLen) :
         LET r == trainAndTest(classifier, trainSet, testSet, verbosity, microAverage,
                               macroSum)
         IN  /\ op' = "trainAndTest"
             /\ args' = [trainSet |-> trainSet, testSet |-> testSet,
                         microAverage |-> microAverage, macroSum |-> macroSum]
             /\ ret' = r.currentStats
             /\ thrown' = r.thrown
             /\ out' = r.out
             /\ trace' = r.trace
             /\ microAverage' = r.microAverage
             /\ macroSum' = r.macroSum
             /\ history' = Append(history, [currentStats |-> r.currentStats,
                                            thrown |-> r.thrown])
             /\ ncalls' = ncalls + 1
    /\ UNCHANGED <<classifier, verbosity, macroSum0>>

NextTrain == TrainAndTest

SpecTrain == Init /\ [][NextTrain]_vars

-----------------------------------------------------------------------------
(* Properties of `test` *)

Range(f) == {f[i] : i \in DOMAIN f}

\* the multiset of the elements of a sequence
BagOfSeq(q) == [e \in Range(q) |-> Cardinality({i \in DOMAIN q : q[i] = e})]

\* two accumulators that received the same multiset of pairs and agree on every
\* count and derived statistic
SameStats(s1, s2) ==
    /\ BagOfSeq(s1.cases) = BagOfSeq(s2.cases)
    /\ [s1 EXCEPT !.cases = <<>>] = [s2 EXCEPT !.cases = <<>>]

\* the kinds of the lines of a console output
Kinds(lines) == [i \in DOMAIN lines |-> lines[i].kind]

\* C1: a call of `test` that returned gave the statistics (the multiset of
\* recorded pairs and every count derived from it), the microAverage and the
\* macroSum that `test` gives on every permutation of the same test set, from
\* the same accumulators.
OrderIndependence ==
    (op = "test" /\ ~thrown) =>
        \A p \in Permutations(DOMAIN args.testSet) :
            LET shuffled == [i \in DOMAIN args.testSet |-> args.testSet[p[i]]]
                r == test(classifier, shuffled, verbosity, args.microAverage,
                          args.macroSum)
            IN  /\ ~r.thrown
                /\ SameStats(r.currentStats, ret)
                /\ supplied(microAverage) => SameStats(r.microAverage, microAverage)
                /\ r.macroSum = macroSum

\* a returned call on two different samples whose (expected, actual) pairs differ,
\* with both accumulators supplied
OrderIndependenceWitness ==
    /\ op = "test" /\ ~thrown
    /\ Len(args.testSet) = 2 /\ args.testSet[1] # args.testSet[2]
    /\ ret.cases[1] # ret.cases[2]
    /\ ret.TP > 0 /\ ret.FP > 0
    /\ supplied(microAverage) /\ supplied(macroSum)

\* macroSum0 plus the summaries of the calls that returned, in order
RECURSIVE SumOfSummaries(_, _)
SumOfSummaries(m, h) ==
    IF h = <<>> THEN m
    ELSE SumOfSummaries(IF h[1].thrown THEN m
                        ELSE hashAdd(m, fullStats(h[1].currentStats)),
                        Tail(h))

\* C2: a supplied macroSum is its initial value plus, feature by feature, the
\* fullStats() of the statistics each call returned, each of them calculated.
MacroSumAdditivity ==
    supplied(macroSum0) =>
        /\ supplied(macroSum)
        /\ macroSum = SumOfSummaries(macroSum0, history)
        /\ \A i \in DOMAIN history :
              ~history[i].thrown => history[i].currentStats.calculated

\* two calls that returned, each over a non-empty test set, on a macroSum that
\* was not empty to begin with
MacroSumAdditivityWitness ==
    /\ Len(history) = 2
    /\ \A i \in DOMAIN history :
          ~history[i].thrown /\ history[i].currentStats.count > 0
    /\ history[1].currentStats # history[2].currentStats
    /\ macroSum0 = PriorHash

\* C3, as stated: on an empty test set `test` calls classify never, returns
\* statistics of zero cases and prints nothing, whatever the verbosity.
EmptyTestSetSilent ==
    (op = "test" /\ args.testSet = <<>>) =>
        /\ trace = <<>>
        /\ ret.count = 0
        /\ out = <<>>

\* C3, amended: on an empty test set `test` calls classify never, returns the
\* calculated statistics of zero cases, prints nothing when verbosity is 0 and
\* otherwise only the summary line, after the full results when verbosity > 2.
EmptyTestSet ==
    (op = "test" /\ args.testSet = <<>>) =>
        /\ ~thrown
        /\ trace = <<>>
        /\ ret = calculateStats(PrecisionRecall)
        /\ Kinds(out) = IF verbosity = 0 THEN <<>>
                        ELSE IF verbosity > 2 THEN <<"FULL RESULTS:", "dir", "SUMMARY">>
                        ELSE <<"SUMMARY">>

EmptyTestSetWitness ==
    /\ op = "test" /\ args.testSet = <<>>
    /\ verbosity = 1
    /\ Len(out) = 1

\* the pairs recorded by the calls so far, in order
RECURSIVE RecordedPairs(_)
RecordedPairs(h) ==
    IF h = <<>> THEN <<>> ELSE h[1].currentStats.cases \o RecordedPairs(Tail(h))

\* an accumulator that received the pairs of q, in order, and nothing else
RECURSIVE Received(_, _)
Received(stats, q) ==
    IF q = <<>> THEN stats ELSE Received(addCases(stats, q[1][1], q[1][2]), Tail(q))

\* C8: a supplied microAverage has received exactly the pairs recorded in the
\* currentStats of the calls so far, each once, and was never calculated, reset
\* or replaced.
MicroAverageAccumulation ==
    supplied(microAverage) =>
        /\ microAverage.cases = RecordedPairs(history)
        /\ microAverage = Received(PrecisionRecall, RecordedPairs(history))

MicroAverageAccumulationWitness ==
    /\ supplied(microAverage)
    /\ Len(history) = 2
    /\ history[1].currentStats.count > 0 /\ history[2].currentStats.count > 1
    /\ \E pair \in Range(microAverage.cases) : pair[1] # pair[2]

\* the indices of the samples on which the caller's classifier throws
ThrowingAt(testSet) ==
    {i \in DOMAIN testSet : classifier.answer[testSet[i].input].throws}

Min(S) == CHOOSE i \in S : \A j \in S : i <= j

\* C10: `test` ends by an exception exactly when classify throws on some sample;
\* then, k being the first such sample, no summary is printed, macroSum is as
\* before the call, and a supplied microAverage has received the pairs of the
\* first k-1 samples on top of what it held.
AbortNotAtomic ==
    op = "test" =>
        /\ thrown <=> ThrowingAt(args.testSet) # {}
        /\ thrown =>
            LET k == Min(ThrowingAt(args.testSet))
                firstPairs == [i \in 1..(k - 1) |->
                                 <<normalizeClasses(args.testSet[i].output),
                                   classifier.answer[args.testSet[i].input].classes>>]
            IN  /\ \A i \in DOMAIN out : out[i].kind # "SUMMARY"
                /\ macroSum = args.macroSum
                /\ supplied(args.microAverage) =>
                      microAverage = Received(args.microAverage, firstPairs)

\* classify threw on the second sample, with both accumulators supplied and a
\* verbosity that prints the summary of a call that returns
AbortNotAtomicWitness ==
    /\ op = "test" /\ thrown
    /\ Min(ThrowingAt(args.testSet)) = 2
    /\ supplied(args.microAverage) /\ supplied(args.macroSum)
    /\ microAverage # args.microAverage
    /\ verbosity > 0

-----------------------------------------------------------------------------
(* Properties of normalizeClasses *)

\* C6: what normalizeClasses returns is an array of strings in ascending order,
\* one per label of its argument, and normalizeClasses maps it to itself.
NormalizeIdempotent ==
    op = "normalizeClasses" =>
        /\ normalizeClasses(Arr(ret)) = ret
        /\ \A i \in DOMAIN ret : isString(ret[i])
        /\ \A i, j \in DOMAIN ret : i < j => ~StrLess(ret[j].v, ret[i].v)
        /\ Len(ret) = IF args.expectedClasses.isArray
                      THEN Len(args.expectedClasses.elems) ELSE 1

\* an unsorted array of three labels, a number among them, two of which have
\* the same string form
NormalizeIdempotentWitness ==
    /\ op = "normalizeClasses"
    /\ args.expectedClasses.isArray
    /\ Len(ret) = 3
    /\ ret # args.expectedClasses.elems
    /\ \E i \in 1..3 : ~isString(args.expectedClasses.elems[i])
    /\ ret[2] = ret[3] /\ ret[1] # ret[2]

-----------------------------------------------------------------------------
(* Properties of compare and testLite *)

\* the elements of a set of indices, in ascending order
RECURSIVE Ascending(_)
Ascending(S) == IF S = {} THEN <<>> ELSE <<Min(S)>> \o Ascending(S \ {Min(S)})

Verdicts == {"Classifier1 is correct", "Classifier2 is correct", "both are incorrect"}

\* the class array a classifier answers to the input of a sample, sorted
SortedAnswer(c, sample) == sort(c.answer[sample.input].classes)

\* the samples of a compared dataset on which the two sorted outputs differ
Diverging ==
    {i \in DOMAIN args.dataset :
        SortedAnswer(args.classifier1, args.dataset[i])
            # SortedAnswer(args.classifier2, args.dataset[i])}

\* C4: a call of `compare` that returned printed, for each sample on which the
\* two sorted outputs differ and in the order of the dataset, one line with the
\* two outputs followed by exactly one of the three verdicts, and nothing for
\* the other samples.
DivergenceClassification ==
    (op = "compare" /\ ~thrown) =>
        LET d == Ascending(Diverging)
        IN  /\ Len(out) = 2 * Len(d)
            /\ \A j \in DOMAIN d :
                  /\ out[2 * j - 1].kind = "classes"
                  /\ out[2 * j - 1].input = args.dataset[d[j]].input
                  /\ out[2 * j].kind \in Verdicts

\* two samples, the classifiers agreeing on one (wrongly) and differing on the other
DivergenceClassificationWitness ==
    /\ op = "compare" /\ ~thrown
    /\ Len(args.dataset) = 2
    /\ Diverging = {2}
    /\ SortedAnswer(args.classifier1, args.dataset[1])
          # normalizeClasses(args.dataset[1].output)
    /\ out[2].kind = "both are incorrect"

\* the verdict the claim asks for: labels are compared by their string forms
ExpectedVerdict(sample) ==
    LET expected == LabelSet(normalizeClasses(sample.output))
    IN  IF LabelSet(args.classifier1.answer[sample.input].classes) = expected
        THEN "Classifier1 is correct"
        ELSE IF LabelSet(args.classifier2.answer[sample.input].classes) = expected
             THEN "Classifier2 is correct"
             ELSE "both are incorrect"

\* C5: in a call of `compare` that returned, the verdict printed for a sample on
\* which the outputs differ names classifier 1 when its labels are the expected
\* ones, else classifier 2 when its labels are, else neither, labels being equal
\* when their string forms are.
VerdictCorrect ==
    (op = "compare" /\ ~thrown) =>
        LET d == Ascending(Diverging)
        IN  \A j \in DOMAIN d :
               2 * j <= Len(out) => out[2 * j].kind = ExpectedVerdict(args.dataset[d[j]])

\* the samples of a dataset given to testLite whose normalized expected classes
\* are not the sorted actual classes
Mismatching ==
    {i \in DOMAIN args.dataset :
        normalizeClasses(args.dataset[i].output)
            # SortedAnswer(args.classifier, args.dataset[i])}

\* C7: a call of `testLite` that returned printed one mismatch line for each
\* sample whose normalized expected classes are not its sorted actual classes,
\* in the order of the dataset, then one summary line; and its accumulator
\* received the (expected, sorted actual) pair of every sample, in that order.
TestLiteRecordsAll ==
    (op = "testLite" /\ ~thrown) =>
        LET m == Ascending(Mismatching)
        IN  /\ Len(out) = Len(m) + 1
            /\ \A j \in DOMAIN m :
                  /\ out[j].kind = "mismatch"
                  /\ out[j].input = args.dataset[m[j]].input
                  /\ out[j].expected = normalizeClasses(args.dataset[m[j]].output)
                  /\ out[j].actual = SortedAnswer(args.classifier, args.dataset[m[j]])
            /\ out[Len(out)].kind = "SUMMARY"
            /\ ret.cases = [i \in DOMAIN args.dataset |->
                              <<normalizeClasses(args.dataset[i].output),
                                SortedAnswer(args.classifier, args.dataset[i])>>]
            /\ ret.count = Len(args.dataset)

\* a matching sample followed by a mismatching one, the result unwrapped from
\* its `classes` property
TestLiteRecordsAllWitness ==
    /\ op = "testLite" /\ ~thrown
    /\ Len(args.dataset) = 2
    /\ Mismatching = {2}
    /\ args.explain # 0 /\ args.classifier.explains
    /\ out[1].kind = "mismatch"

-----------------------------------------------------------------------------
(* Properties of trainAndTest *)

\* C9: trainAndTest calls the factory once, then trainBatch once with the train
\* set, then classify once per test sample in order (up to the one that throws,
\* if any), all on the created classifier; and what it returns and does to the
\* accumulators is what `test` returns and does, given that classifier, the
\* test set, the verbosity and the two accumulators.
TrainThenTest ==
    op = "trainAndTest" =>
        LET n == IF thrown THEN Min(ThrowingAt(args.testSet)) ELSE Len(args.testSet)
            r == test(classifier, args.testSet, verbosity, args.microAverage,
                      args.macroSum)
        IN  /\ trace = <<[call |-> "createNewClassifierFunction", on |-> classifier.name],
                         [call |-> "trainBatch", on |-> classifier.name,
                          trainSet |-> args.trainSet]>>
                       \o [i \in 1..n |-> classifyCall(classifier, args.testSet[i].input)]
            /\ thrown = r.thrown
            /\ ret = r.currentStats
            /\ microAverage = r.microAverage
            /\ macroSum = r.macroSum

\* a run that returned, trained on three samples and tested on two others
TrainThenTestWitness ==
    /\ op = "trainAndTest" /\ ~thrown
    /\ Len(args.trainSet.samples) = 3
    /\ Len(args.testSet) = 2 /\ args.testSet[1] # args.testSet[2]
    /\ ret.count = 2
    /\ supplied(microAverage) /\ supplied(macroSum)
    /\ verbosity = 3

=============================================================================
